---- MODULE Spec2Model ----
(***************************************************************************)
(* A model of firepwd.py: the master-key extraction and login decryption   *)
(* pipeline (main, getKey, extractSecretKey, decryptPBE), the DER walker   *)
(* (printASN1) and the BSD DB 1.85 reader (readBsddb).                     *)
(*                                                                         *)
(* Byte strings are sequences of numbers 0..255.  Ciphertexts are symbolic:*)
(* a ciphertext is the pair of the derived key it was produced under and   *)
(* its plaintext; decrypting under any other key yields garbage of the     *)
(* same length.  Python's None is the record NoneBytes (isNone = TRUE).    *)
(***************************************************************************)
EXTENDS Integers, Sequences, FiniteSets, TLC

VARIABLES
    \* ---- main / getKey ----
    directory,       \* the profile directory: which key store it holds and its contents
    masterPassword,  \* args.masterPassword
    pc,              \* position of main
    key,             \* main's local key
    algo,            \* main's local algo
    logins,          \* main's local logins (list of (username, password) blobs)
    idx,             \* index of the record the for loop is at (1-based)
    exitStatus,      \* process exit status, -1 while running
    error,           \* kind of the exception that was raised, "none" if none
    failedAt,        \* <<record, field>> the loop raised at, <<0, "-">> otherwise
    getKeyCalls,     \* number of completed calls of getKey
    verified,        \* getKey compared the check plaintext with the literal and it matched
    attempted,       \* blobs <<record, field>> whose ciphertext was handed to DES3
    printed,         \* blobs <<record, field>> whose plaintext was printed
    \* ---- printASN1 ----
    buf,             \* the buffer d given to printASN1
    asnPc,           \* "ready" | "done"
    asnResult,       \* what printASN1(buf, len(buf), 0) did
    \* ---- readBsddb ----
    header,          \* the fields of the 60-byte header
    dbPc,            \* position of readBsddb
    dbError,         \* exception readBsddb raised, "none" if none
    headerReads,     \* f.read(4 * 15) calls
    seeks,           \* f.seek calls
    pageReads,       \* f.read calls after the header read
    readkeys, page, nval, val, keys, i, offLen, eof,
    offsetVals,      \* the page's list of absolute offsets
    db1,             \* the flat record list
    db,              \* the returned mapping, as a set of <<key, value>> pairs
    visited          \* the pages visited, in order

mainVars == <<directory, masterPassword, pc, key, algo, logins, idx, exitStatus,
              error, failedAt, getKeyCalls, verified, attempted, printed>>
asnVars == <<buf, asnPc, asnResult>>
dbVars == <<header, dbPc, dbError, headerReads, seeks, pageReads, readkeys, page,
            nval, val, keys, i, offLen, eof, offsetVals, db1, db, visited>>
vars == <<mainVars, asnVars, dbVars>>

(***************************************************************************)
(* Bounds of the model.                                                    *)
(***************************************************************************)
MaxLogins == 2
MaxBuf == 5
MaxKeys == 2

(***************************************************************************)
(* Byte strings.                                                           *)
(***************************************************************************)
Min(a, b) == IF a < b THEN a ELSE b

Fill(b, n) == [k \in 1..n |-> b]

\* Python's s[:n]
Take(s, n) == SubSeq(s, 1, Min(n, Len(s)))

NoneBytes == [isNone |-> TRUE, bytes |-> <<>>]
SomeBytes(s) == [isNone |-> FALSE, bytes |-> s]

\* b'password-check\x02\x02'
PASSWORD_CHECK == <<112, 97, 115, 115, 119, 111, 114, 100, 45, 99, 104, 101, 99, 107, 2, 2>>

CKA_ID == <<248, 0, 0, 0, 0, 0, 0, 0, 0, 0, 0, 0, 0, 0, 0, 1>>
OTHER_ID == <<248, 0, 0, 0, 0, 0, 0, 0, 0, 0, 0, 0, 0, 0, 0, 2>>

OID_3DES == "1.2.840.113549.1.12.5.1.3"
OID_PBES2 == "1.2.840.113549.1.5.13"
OID_OTHER == "1.2.840.113549.3.7"
ALGO_NONE == "None"

KeyLen == 24
Pbes2KeyLength == 32

(***************************************************************************)
(* Symbolic cryptography.  Derive stands for the key (and IV) derivation   *)
(* chain; Encrypt/Decrypt for the block cipher in CBC mode.                *)
(***************************************************************************)
Derive(scheme, globalSalt, password, entrySalt) == <<scheme, globalSalt, password, entrySalt>>

Encrypt(k, plain) == [k |-> k, p |-> plain]

Garbage(n) == Fill(255, n)

Decrypt(k, c) == IF c.k = k THEN c.p ELSE Garbage(Len(c.p))

decryptMoz3DES(globalSalt, password, entrySalt, encryptedData) ==
    Decrypt(Derive("3des", globalSalt, password, entrySalt), encryptedData)

(***************************************************************************)
(* Results.  A call either raises (exc # "none"; hasMsg says whether the   *)
(* exception carries a message, i.e. e.args is not empty) or returns.      *)
(***************************************************************************)
Raise(kind, msg) ==
    [exc |-> kind, hasMsg |-> msg, isNone |-> TRUE, clearText |-> <<>>, algo |-> ALGO_NONE]

ReturnPBE(clearText, pbeAlgo) ==
    [exc |-> "none", hasMsg |-> FALSE, isNone |-> FALSE, clearText |-> clearText, algo |-> pbeAlgo]

ReturnNonePBE ==
    [exc |-> "none", hasMsg |-> FALSE, isNone |-> TRUE, clearText |-> <<>>, algo |-> ALGO_NONE]

decryptPBE(decodedItem, password, globalSalt) ==
    IF decodedItem.oid = OID_3DES
    THEN ReturnPBE(Take(decryptMoz3DES(globalSalt, password, decodedItem.entrySalt,
                                       decodedItem.cipherT), KeyLen), OID_3DES)
    ELSE IF decodedItem.oid = OID_PBES2
    THEN IF decodedItem.keyLength # Pbes2KeyLength
         THEN Raise("AssertionError", FALSE)
         ELSE ReturnPBE(Decrypt(Derive("pbes2", globalSalt, password, decodedItem.entrySalt),
                                decodedItem.cipherT), OID_PBES2)
    ELSE ReturnNonePBE

\* clearText, algo = decryptPBE(...), after decoder.decode(item)
DecodeAndDecrypt(item, password, globalSalt) ==
    IF ~item.der
    THEN Raise("PyAsn1Error", TRUE)
    ELSE LET r == decryptPBE(item, password, globalSalt)
         IN  IF r.exc = "none" /\ r.isNone THEN Raise("TypeError", TRUE) ELSE r

(***************************************************************************)
(* Python integers of arbitrary size: a sign and the big-endian base-256   *)
(* digits of the magnitude without leading zeros (<<>> is 0).  The         *)
(* magnitude of a negative number is never read (long_to_bytes raises).    *)
(***************************************************************************)
RECURSIVE StripZeros(_)
StripZeros(s) == IF s # <<>> /\ s[1] = 0 THEN StripZeros(Tail(s)) ELSE s

\* pyasn1's decoding of an INTEGER's content octets (two's complement)
IntFromDer(content) ==
    IF content # <<>> /\ content[1] >= 128
    THEN [neg |-> TRUE, mag |-> <<>>]
    ELSE [neg |-> FALSE, mag |-> StripZeros(content)]

\* Crypto.Util.number.long_to_bytes(n)
long_to_bytes(n) ==
    IF n.neg THEN [exc |-> "ValueError", bytes |-> <<>>]
    ELSE IF n.mag = <<>> THEN [exc |-> "none", bytes |-> <<0>>]
    ELSE [exc |-> "none", bytes |-> n.mag]

(***************************************************************************)
(* readBsddb's header checks.                                              *)
(***************************************************************************)
MAGIC == 398689
VERSION == 2

\* a check that forgets the version word
CheckHeaderMagicOnly(magic, version) ==
    IF magic # MAGIC THEN "bad magic number" ELSE "ok"

CheckHeader(magic, version) ==
    IF magic # MAGIC THEN "bad magic number"
    ELSE IF version # VERSION THEN "bad version"
    ELSE "ok"

(***************************************************************************)
(* getKey and extractSecretKey.                                            *)
(***************************************************************************)
RaiseKey(kind, msg) ==
    [exc |-> kind, hasMsg |-> msg, key |-> NoneBytes, algo |-> ALGO_NONE, verified |-> FALSE]

ReturnKey(k, a, v) ==
    [exc |-> "none", hasMsg |-> FALSE, key |-> k, algo |-> a, verified |-> v]

extractSecretKey(password, keyData) ==
    LET cleartextData == decryptMoz3DES(keyData.globalSalt, password, keyData.entrySalt,
                                        keyData.pwdCheck)
    IN  IF cleartextData # PASSWORD_CHECK
        THEN RaiseKey("RuntimeError", TRUE)
        ELSE IF ~keyData.hasCKA
        THEN ReturnKey(NoneBytes, OID_3DES, TRUE)
        ELSE LET privKey == decryptMoz3DES(keyData.globalSalt, password, keyData.entrySalt,
                                           keyData.privKeyData)
             IN  IF privKey = Garbage(Len(privKey))
                 THEN RaiseKey("PyAsn1Error", TRUE)
                 ELSE LET k == long_to_bytes(IntFromDer(privKey))
                      IN  IF k.exc # "none"
                          THEN RaiseKey(k.exc, TRUE)
                          ELSE ReturnKey(SomeBytes(k.bytes), OID_3DES, TRUE)

getKeyModern(password, dir) ==
    LET r == DecodeAndDecrypt(dir.item2, password, dir.globalSalt)
    IN  IF r.exc # "none"
        THEN RaiseKey(r.exc, r.hasMsg)
        ELSE IF r.clearText = PASSWORD_CHECK
        THEN IF ~dir.hasA11
             THEN RaiseKey("RuntimeError", TRUE)
             ELSE LET r2 == DecodeAndDecrypt(dir.a11, password, dir.globalSalt)
                  IN  IF r2.exc # "none"
                      THEN RaiseKey(r2.exc, r2.hasMsg)
                      ELSE ReturnKey(SomeBytes(Take(r2.clearText, KeyLen)), r2.algo, TRUE)
        ELSE ReturnKey(NoneBytes, ALGO_NONE, FALSE)

getKeyLegacy(password, dir) ==
    IF CheckHeader(dir.magic, dir.version) # "ok"
    THEN RaiseKey("AssertionError", TRUE)
    ELSE extractSecretKey(password, dir)

getKey(password, dir) ==
    IF dir.kind = "key4" THEN getKeyModern(password, dir)
    ELSE IF dir.kind = "key3" THEN getKeyLegacy(password, dir)
    ELSE RaiseKey("RuntimeError", TRUE)

(***************************************************************************)
(* The credential loop's library calls.                                    *)
(***************************************************************************)
\* DES3.new(key, DES3.MODE_CBC, iv): "none", or the exception it raises
DES3New(k) ==
    IF k.isNone THEN "TypeError"
    ELSE IF Len(k.bytes) \notin {16, KeyLen} THEN "ValueError"
    ELSE LET b == [n \in 1..Len(k.bytes) |-> k.bytes[n] \div 2]   \* parity bits dropped
             n == Len(b)
         IN  IF SubSeq(b, 1, 8) = SubSeq(b, 9, 16) \/ SubSeq(b, n - 15, n - 8) = SubSeq(b, n - 7, n)
             THEN "ValueError"
             ELSE "none"

\* Crypto.Util.Padding.unpad(data, 8) succeeds
UnpadOk(data) ==
    /\ Len(data) > 0
    /\ Len(data) % 8 = 0
    /\ LET padLen == data[Len(data)]
       IN  /\ padLen >= 1
           /\ padLen <= Min(8, Len(data))
           /\ \A n \in (Len(data) - padLen + 1)..Len(data) : data[n] = padLen

\* an identifier check that accepts every identifier
CheckIdAny(id) == TRUE

\* the assert of the loop: id == CKA_ID
CheckId(id) == id = CKA_ID

\* a loop guard that accepts every algorithm tag, None included
AlgoSupportedAny(a) == TRUE

\* the guard of the loop: the algorithm getKey reported is one of the two supported
AlgoSupported(a) == a = OID_3DES \/ a = OID_PBES2

\* parser.error(e.args[0]): argparse exits with status 2; an exception without
\* arguments makes e.args[0] raise IndexError inside the handler, which is uncaught
HandlerExitStatus(hasMsg) == IF hasMsg THEN 2 ELSE 1

\* an uncaught exception ends the interpreter with status 1
UncaughtExitStatus == 1

(***************************************************************************)
(* The inputs: profile directories and login files.                        *)
(***************************************************************************)
GS == <<103>>
ES == <<101>>
Passwords == {<<>>, <<112>>}

Ramp(n) == [k \in 1..n |-> k]
TrueKey == Ramp(KeyLen)

CheckPlains == {PASSWORD_CHECK, Fill(0, 16)}

Item(oid, keyLength, plain, der, sp) ==
    [oid |-> oid, keyLength |-> keyLength, entrySalt |-> ES, der |-> der,
     cipherT |-> Encrypt(Derive(IF oid = OID_PBES2 THEN "pbes2" ELSE "3des", GS, sp, ES), plain)]

\* <<top-level OID, declared PBES2 key length, whether the blob is well-formed DER>>
ItemShapes == {<<OID_3DES, 0, TRUE>>, <<OID_PBES2, 32, TRUE>>, <<OID_PBES2, 16, TRUE>>,
               <<OID_OTHER, 0, TRUE>>, <<OID_3DES, 0, FALSE>>}
KeyShapes == {<<OID_3DES, 0, TRUE>>, <<OID_PBES2, 32, TRUE>>, <<OID_PBES2, 16, TRUE>>}
PayloadLens == {16, 32}

NoItem == Item(OID_OTHER, 0, <<>>, FALSE, <<>>)
NoCipher == Encrypt(<<>>, <<>>)

Dir(kind, item2, hasA11, a11, magic, version, pwdCheck, hasCKA, privKeyData) ==
    [kind |-> kind, globalSalt |-> GS, entrySalt |-> ES, item2 |-> item2, hasA11 |-> hasA11,
     a11 |-> a11, magic |-> magic, version |-> version, pwdCheck |-> pwdCheck,
     hasCKA |-> hasCKA, privKeyData |-> privKeyData]

NoStore == Dir("none", NoItem, FALSE, NoItem, 0, 0, NoCipher, FALSE, NoCipher)

\* key4.db files protected by master password sp
Key4Stores(sp) ==
    { Dir("key4", Item(sh[1], sh[2], cp, sh[3], sp), TRUE,
          Item(ks[1], ks[2], Ramp(n), ks[3], sp), 0, 0, NoCipher, FALSE, NoCipher)
      : sh \in ItemShapes, cp \in CheckPlains, ks \in KeyShapes, n \in PayloadLens }
    \cup
    { Dir("key4", Item(sh[1], sh[2], cp, sh[3], sp), FALSE, NoItem, 0, 0, NoCipher, FALSE,
          NoCipher)
      : sh \in ItemShapes, cp \in CheckPlains }

\* content octets of the 4th INTEGER of the innermost sequence
PrKeyInts == { TrueKey,
               <<0>> \o Tail(TrueKey),
               <<0, 200>> \o Tail(TrueKey),
               <<200>> \o Tail(TrueKey) }

Headers == {<<MAGIC, VERSION>>, <<MAGIC + 1, VERSION>>, <<MAGIC, VERSION + 1>>}

\* key3.db files protected by master password sp
Key3Stores(sp) ==
    { Dir("key3", NoItem, FALSE, NoItem, h[1], h[2],
          Encrypt(Derive("3des", GS, sp, ES), cp), TRUE,
          Encrypt(Derive("3des", GS, sp, ES), pk))
      : h \in Headers, cp \in CheckPlains, pk \in PrKeyInts }
    \cup
    { Dir("key3", NoItem, FALSE, NoItem, h[1], h[2],
          Encrypt(Derive("3des", GS, sp, ES), cp), FALSE, NoCipher)
      : h \in Headers, cp \in CheckPlains }

Directories == {NoStore} \cup UNION { Key4Stores(sp) \cup Key3Stores(sp) : sp \in Passwords }

Blob(id, plain) == [id |-> id, ciphertext |-> Encrypt(TrueKey, plain)]
GoodBlob == Blob(CKA_ID, <<117, 7, 7, 7, 7, 7, 7, 7>>)
BadIdBlob == Blob(OTHER_ID, <<117, 7, 7, 7, 7, 7, 7, 7>>)
BadPadBlob == Blob(CKA_ID, <<117, 0, 0, 0, 0, 0, 0, 0>>)
Blobs == {GoodBlob, BadIdBlob, BadPadBlob}
LoginRecords == [username : Blobs, password : Blobs]

SeqsUpTo(S, n) == UNION { [1..m -> S] : m \in 0..n }
LoginLists == SeqsUpTo(LoginRecords, MaxLogins)

(***************************************************************************)
(* main.                                                                   *)
(***************************************************************************)
InitMain ==
    /\ directory \in Directories
    /\ masterPassword \in Passwords
    /\ pc = "getKey"
    /\ key = NoneBytes
    /\ algo = ALGO_NONE
    /\ logins = <<>>
    /\ idx = 0
    /\ exitStatus = -1
    /\ error = "none"
    /\ failedAt = <<0, "-">>
    /\ getKeyCalls = 0
    /\ verified = FALSE
    /\ attempted = {}
    /\ printed = {}

InitMainIdle ==
    /\ directory = NoStore
    /\ masterPassword = <<>>
    /\ pc = "idle"
    /\ key = NoneBytes
    /\ algo = ALGO_NONE
    /\ logins = <<>>
    /\ idx = 0
    /\ exitStatus = -1
    /\ error = "none"
    /\ failedAt = <<0, "-">>
    /\ getKeyCalls = 0
    /\ verified = FALSE
    /\ attempted = {}
    /\ printed = {}

Exit(status, kind, where) ==
    /\ pc' = "exit"
    /\ exitStatus' = status
    /\ error' = kind
    /\ failedAt' = where

\* key, algo = getKey(...) inside the try; the except clause calls parser.error
CallGetKey ==
    /\ pc = "getKey"
    /\ LET r == getKey(masterPassword, directory)
       IN  /\ getKeyCalls' = getKeyCalls + 1
           /\ IF r.exc # "none"
              THEN /\ Exit(HandlerExitStatus(r.hasMsg), r.exc, <<0, "getKey">>)
                   /\ UNCHANGED <<key, algo, verified>>
              ELSE /\ key' = r.key
                   /\ algo' = r.algo
                   /\ verified' = r.verified
                   /\ pc' = "getLoginData"
                   /\ UNCHANGED <<exitStatus, error, failedAt>>
    /\ UNCHANGED <<directory, masterPassword, logins, idx, attempted, printed>>
    /\ UNCHANGED <<asnVars, dbVars>>

\* logins = getLoginData(...) inside the try: the login file is missing, or holds a list
CallGetLoginData ==
    /\ pc = "getLoginData"
    /\ \/ /\ Exit(HandlerExitStatus(TRUE), "RuntimeError", <<0, "getLoginData">>)
          /\ UNCHANGED logins
       \/ \E ls \in LoginLists :
             /\ logins' = ls
             /\ pc' = "loop"
             /\ UNCHANGED <<exitStatus, error, failedAt>>
    /\ UNCHANGED <<directory, masterPassword, key, algo, idx, getKeyCalls, verified,
                   attempted, printed>>
    /\ UNCHANGED <<asnVars, dbVars>>

\* the head of the for loop (and its end): next record, or fall off the end of main
NextRecord(n) ==
    IF AlgoSupported(algo) /\ n <= Len(logins)
    THEN /\ idx' = n
         /\ pc' = "checkUser"
         /\ UNCHANGED <<exitStatus, error, failedAt>>
    ELSE /\ idx' = idx
         /\ Exit(0, "none", <<0, "-">>)

LoopHead ==
    /\ pc = "loop"
    /\ NextRecord(1)
    /\ UNCHANGED <<directory, masterPassword, key, algo, logins, getKeyCalls, verified,
                   attempted, printed>>
    /\ UNCHANGED <<asnVars, dbVars>>

\* assert id == CKA_ID, for the username (field "u") or the password (field "p")
CheckBlobId(field, here, next) ==
    /\ pc = here
    /\ LET blob == IF field = "u" THEN logins[idx].username ELSE logins[idx].password
       IN  IF CheckId(blob.id)
           THEN /\ pc' = next
                /\ UNCHANGED <<exitStatus, error, failedAt>>
           ELSE Exit(UncaughtExitStatus, "AssertionError", <<idx, field>>)
    /\ UNCHANGED <<directory, masterPassword, key, algo, logins, idx, getKeyCalls, verified,
                   attempted, printed>>
    /\ UNCHANGED <<asnVars, dbVars>>

\* print(unpad(DES3.new(key, DES3.MODE_CBC, iv).decrypt(ciphertext), 8))
DecryptBlob(field, here) ==
    /\ pc = here
    /\ LET blob == IF field = "u" THEN logins[idx].username ELSE logins[idx].password
           made == DES3New(key)
       IN  /\ attempted' = attempted \cup {<<idx, field>>}
           /\ IF made # "none"
              THEN /\ Exit(UncaughtExitStatus, made, <<idx, field>>)
                   /\ UNCHANGED <<printed, idx>>
              ELSE IF ~UnpadOk(Decrypt(key.bytes, blob.ciphertext))
              THEN /\ Exit(UncaughtExitStatus, "PaddingError", <<idx, field>>)
                   /\ UNCHANGED <<printed, idx>>
              ELSE /\ printed' = printed \cup {<<idx, field>>}
                   /\ IF field = "u"
                      THEN /\ pc' = "checkPass"
                           /\ UNCHANGED <<idx, exitStatus, error, failedAt>>
                      ELSE NextRecord(idx + 1)
    /\ UNCHANGED <<directory, masterPassword, key, algo, logins, getKeyCalls, verified>>
    /\ UNCHANGED <<asnVars, dbVars>>

CheckUserId == CheckBlobId("u", "checkUser", "decryptUser")
DecryptUser == DecryptBlob("u", "decryptUser")
CheckPassId == CheckBlobId("p", "checkPass", "decryptPass")
DecryptPass == DecryptBlob("p", "decryptPass")

Next ==
    \/ CallGetKey
    \/ CallGetLoginData
    \/ LoopHead
    \/ CheckUserId
    \/ DecryptUser
    \/ CheckPassId
    \/ DecryptPass

(***************************************************************************)
(* printASN1.  d[k] of the source is d[k + 1] here.  A result is the       *)
(* exception raised ("none" if none) and the value returned.               *)
(***************************************************************************)
SEQUENCE_TAG == 48
asn1Types == {48, 4, 6, 2, 5}

\* Python's d[n:]
Drop(d, n) == SubSeq(d, n + 1, Len(d))

AsnRaise(kind) == [exc |-> kind, ret |-> 0]
AsnReturn(n) == [exc |-> "none", ret |-> n]

\* what printASN1 returns for an element whose length variable ended as length
\* and whose length was in long form iff skip = 1
ReturnValue(length, skip) == length + 2

RECURSIVE printASN1(_, _, _), SeqLoop(_, _, _, _, _)
\* the while loop of the SEQUENCE branch: "none", or the exception a child raised
SeqLoop(d, skip, seqLen, readLen, rl) ==
    IF seqLen > 0
    THEN LET len2 == printASN1(Drop(d, 2 + skip + readLen), seqLen, rl + 1)
         IN  IF len2.exc # "none"
             THEN len2.exc
             ELSE SeqLoop(d, skip, seqLen - len2.ret, readLen + len2.ret, rl)
    ELSE "none"

printASN1(d, l, rl) ==
    IF Len(d) < 2
    THEN AsnRaise("IndexError")
    ELSE LET type == d[1]
             long == d[2] >= 128
         IN  IF long /\ Len(d) < 3
             THEN AsnRaise("IndexError")
             ELSE LET length == IF long THEN d[3] ELSE d[2]
                      skip == IF long THEN 1 ELSE 0
                  IN  IF type \notin asn1Types
                      THEN AsnRaise("KeyError")
                      ELSE IF type = SEQUENCE_TAG
                      THEN LET e == SeqLoop(d, skip, length, 0, rl)
                           IN  IF e # "none" THEN AsnRaise(e)
                               ELSE AsnReturn(ReturnValue(length, skip))
                      ELSE AsnReturn(ReturnValue(length, skip))

AsnBytes == {0, 1, 2, 3, 4, 5, 48, 129, 130}
Buffers == SeqsUpTo(AsnBytes, MaxBuf)

AsnIdle ==
    /\ buf = <<>>
    /\ asnPc = "idle"
    /\ asnResult = AsnReturn(0)

InitAsn ==
    /\ buf \in Buffers
    /\ asnPc = "ready"
    /\ asnResult = AsnReturn(0)

CallPrintASN1 ==
    /\ asnPc = "ready"
    /\ asnResult' = printASN1(buf, Len(buf), 0)
    /\ asnPc' = "done"
    /\ UNCHANGED buf
    /\ UNCHANGED <<mainVars, dbVars>>

NextAsn ==
    \/ CallPrintASN1

(***************************************************************************)
(* readBsddb.  The header's fields are inputs of the initial state; what   *)
(* each later f.read returns is an input of the step that reads: the       *)
(* 16-bit words of a page's offset table (the word at 8 + i of one         *)
(* iteration is the word at 4 + i of the next) and the records' bytes.     *)
(***************************************************************************)
HEADER_SIZE == 60
PageSizes == {16}
ShortVals == {14, 16}
Contents == {<<>>, <<97>>}

DbHeaders ==
    [len : {HEADER_SIZE}, magic : {MAGIC, MAGIC + 1}, version : {VERSION, VERSION + 1},
     pagesize : PageSizes, nkeys : 0..MaxKeys]
    \cup [len : {0}, magic : {0}, version : {0}, pagesize : {0}, nkeys : {0}]

\* f.read((nkeys + 1) * 4 + 2)
OffsetsRequest(nkeys) == (nkeys + 1) * 4 + 2

\* lengths the read of a page's offset table can come back with: all of it, or
\* cut by the end of the file after n whole iterations' worth of words, or empty
OffsetsLens(nkeys) == {0, OffsetsRequest(nkeys)} \cup { 4 * n + 6 : n \in 1..nkeys }

\* sorted(offsetVals)
RECURSIVE Insert(_, _)
Insert(x, s) ==
    IF s = <<>> THEN <<x>>
    ELSE IF x <= s[1] THEN <<x>> \o s
    ELSE <<s[1]>> \o Insert(x, Tail(s))

RECURSIVE sorted(_)
sorted(s) == IF s = <<>> THEN <<>> ELSE Insert(s[1], sorted(Tail(s)))

\* db[k] = v on a mapping held as a set of <<key, value>> pairs
DictSet(d, k, v) == { p \in d : p[1] # k } \cup {<<k, v>>}

\* the pair the final loop stores at flat index n (0-based, even): db[db1[n + 1]] = db1[n]
PairAt(records, n) == <<records[n + 2], records[n + 1]>>

\* for i in range(0, len(db1), 2): db[db1[i + 1]] = db1[i]
RECURSIVE BuildDb(_, _, _)
BuildDb(records, n, d) ==
    IF n >= Len(records) THEN d
    ELSE BuildDb(records, n + 2, DictSet(d, PairAt(records, n)[1], PairAt(records, n)[2]))

\* an outer loop that tests readkeys <= nkeys
OuterGuardInclusive(rk, nkeys) == rk <= nkeys

\* while readkeys < nkeys
OuterGuard(rk, nkeys) == rk < nkeys

DbIdle ==
    /\ header = [len |-> 0, magic |-> 0, version |-> 0, pagesize |-> 0, nkeys |-> 0]
    /\ dbPc = "idle"
    /\ dbError = "none"
    /\ headerReads = 0 /\ seeks = 0 /\ pageReads = 0
    /\ readkeys = 0 /\ page = 0 /\ nval = 0 /\ val = 0 /\ keys = 0 /\ i = 0
    /\ offLen = 0 /\ eof = FALSE
    /\ offsetVals = <<>> /\ db1 = <<>> /\ db = {} /\ visited = <<>>

InitDb ==
    /\ header \in DbHeaders
    /\ dbPc = "open"
    /\ dbError = "none"
    /\ headerReads = 0 /\ seeks = 0 /\ pageReads = 0
    /\ readkeys = 0 /\ page = 0 /\ nval = 0 /\ val = 0 /\ keys = 0 /\ i = 0
    /\ offLen = 0 /\ eof = FALSE
    /\ offsetVals = <<>> /\ db1 = <<>> /\ db = {} /\ visited = <<>>

DbRaise(kind) ==
    /\ dbPc' = "raised"
    /\ dbError' = kind

\* header = f.read(4 * 15), the two asserts, pagesize, nkeys, and the loop's initialisation
ReadHeader ==
    /\ dbPc = "open"
    /\ headerReads' = headerReads + 1
    /\ IF header.len < 4
       THEN /\ DbRaise("struct.error")
            /\ UNCHANGED <<readkeys, page, nval, val, db1>>
       ELSE IF CheckHeader(header.magic, IF header.len < 8 THEN VERSION ELSE header.version) # "ok"
       THEN /\ DbRaise("AssertionError")
            /\ UNCHANGED <<readkeys, page, nval, val, db1>>
       ELSE IF header.len < HEADER_SIZE
       THEN /\ DbRaise("struct.error")
            /\ UNCHANGED <<readkeys, page, nval, val, db1>>
       ELSE /\ readkeys' = 0 /\ page' = 1 /\ nval' = 0 /\ val' = 1 /\ db1' = <<>>
            /\ dbPc' = "outer"
            /\ UNCHANGED dbError
    /\ UNCHANGED <<header, seeks, pageReads, keys, i, offLen, eof, offsetVals, db, visited>>
    /\ UNCHANGED <<mainVars, asnVars>>

\* the outer loop's test holds: f.seek(pagesize * page), the read of the offset table
PageStart ==
    /\ dbPc = "outer"
    /\ OuterGuard(readkeys, header.nkeys)
    /\ seeks' = seeks + 1
    /\ pageReads' = pageReads + 1
    /\ \E n \in OffsetsLens(header.nkeys) :
          /\ offLen' = IF eof THEN 0 ELSE n
          /\ eof' = (eof \/ n < OffsetsRequest(header.nkeys))
    /\ offsetVals' = <<>> /\ i' = 0 /\ nval' = 0 /\ val' = 1 /\ keys' = 0
    /\ visited' = Append(visited, page)
    /\ dbPc' = "inner"
    /\ UNCHANGED <<header, dbError, headerReads, readkeys, page, db1, db>>
    /\ UNCHANGED <<mainVars, asnVars>>

\* one iteration of while nval != val
EntryRead ==
    /\ dbPc = "inner"
    /\ nval # val
    /\ keys' = keys + 1
    /\ IF 10 + i > offLen
       THEN /\ DbRaise("struct.error")
            /\ UNCHANGED <<val, nval, offsetVals, readkeys, i>>
       ELSE /\ \E k \in ShortVals, v \in ShortVals, nv \in ShortVals :
                  /\ val' = IF i = 0 THEN v ELSE nval
                  /\ nval' = nv
                  /\ offsetVals' = offsetVals \o <<k + header.pagesize * page,
                                                  val' + header.pagesize * page>>
            /\ readkeys' = readkeys + 1
            /\ i' = i + 4
            /\ UNCHANGED <<dbPc, dbError>>
    /\ UNCHANGED <<header, headerReads, seeks, pageReads, page, offLen, eof, db1, db, visited>>
    /\ UNCHANGED <<mainVars, asnVars>>

\* nval == val: the sentinel, the sort, the reads of the page's records, page += 1
PageFinish ==
    /\ dbPc = "inner"
    /\ nval = val
    /\ LET valKey == sorted(Append(offsetVals, header.pagesize * (page + 1)))
       IN  /\ offsetVals' = Append(offsetVals, header.pagesize * (page + 1))
           /\ \E data \in [1..(keys * 2) -> Contents] :
                 /\ \A n \in 1..(keys * 2) : valKey[n + 1] = valKey[n] => data[n] = <<>>
                 /\ db1' = db1 \o data
    /\ seeks' = seeks + keys * 2
    /\ pageReads' = pageReads + keys * 2
    /\ i' = keys * 2 - 1
    /\ page' = page + 1
    /\ dbPc' = "outer"
    /\ UNCHANGED <<header, dbError, headerReads, readkeys, nval, val, keys, offLen, eof,
                   db, visited>>
    /\ UNCHANGED <<mainVars, asnVars>>

\* the outer loop's test fails: the regrouping into db and the return
BuildAndReturn ==
    /\ dbPc = "outer"
    /\ ~OuterGuard(readkeys, header.nkeys)
    /\ db' = BuildDb(db1, 0, {})
    /\ dbPc' = "done"
    /\ UNCHANGED <<header, dbError, headerReads, seeks, pageReads, readkeys, page, nval, val,
                   keys, i, offLen, eof, offsetVals, db1, visited>>
    /\ UNCHANGED <<mainVars, asnVars>>

NextDb ==
    \/ ReadHeader
    \/ PageStart
    \/ EntryRead
    \/ PageFinish
    \/ BuildAndReturn

(***************************************************************************)
(* The specifications: one per program part, the other parts at rest.      *)
(***************************************************************************)
Init == InitMain /\ AsnIdle /\ DbIdle
Spec == Init /\ [][Next]_vars

InitA == InitMainIdle /\ InitAsn /\ DbIdle
SpecAsn == InitA /\ [][NextAsn]_vars

InitD == InitMainIdle /\ AsnIdle /\ InitDb
SpecDb == InitD /\ [][NextDb]_vars

(***************************************************************************)
(* Properties of main and getKey (specification Spec).                     *)
(***************************************************************************)
BlobOf(a) == IF a[2] = "u" THEN logins[a[1]].username ELSE logins[a[1]].password

\* the metadata check blob was decrypted and its plaintext is not the literal
ModernMismatch ==
    /\ directory.kind = "key4"
    /\ LET r == DecodeAndDecrypt(directory.item2, masterPassword, directory.globalSalt)
       IN  r.exc = "none" /\ r.clearText # PASSWORD_CHECK

\* the legacy check value was decrypted and its plaintext is not the literal
LegacyMismatch ==
    /\ directory.kind = "key3"
    /\ CheckHeader(directory.magic, directory.version) = "ok"
    /\ decryptMoz3DES(directory.globalSalt, masterPassword, directory.entrySalt,
                      directory.pwdCheck) # PASSWORD_CHECK

\* the legacy store passed the password check and holds no record keyed by CKA_ID
LegacyNoKeyRecord ==
    /\ directory.kind = "key3"
    /\ CheckHeader(directory.magic, directory.version) = "ok"
    /\ ~LegacyMismatch
    /\ ~directory.hasCKA

GetKeyReturned == pc # "getKey" /\ failedAt # <<0, "getKey">>

\* C1: on the key4.db path, a check plaintext other than password-check\x02\x02 makes
\* master-key extraction end in an error; getKey never returns to its caller then.
C1_MismatchRaises ==
    (pc # "getKey" /\ ModernMismatch)
        => (pc = "exit" /\ error # "none" /\ failedAt = <<0, "getKey">>)

\* C2: a run in which a core step failed (a raised exception of any kind, a password
\* check that did not match, a missing CKA_ID key record) never ends with status 0.
C2_FailureExitsNonZero ==
    (pc = "exit" /\ (error # "none" \/ ModernMismatch \/ LegacyMismatch \/ LegacyNoKeyRecord))
        => exitStatus # 0

\* C3: whenever getKey returns without raising, the key it hands to main is a byte
\* string of exactly 24 bytes.
C3_KeyIs24Bytes ==
    GetKeyReturned => (~key.isNone /\ Len(key.bytes) = KeyLen)

\* the loop is past the username identifier check of record n
PastUserCheck(n) == idx > n \/ (idx = n /\ pc # "checkUser")

\* the loop is past the password identifier check of record n
PastPassCheck(n) == idx > n \/ (idx = n /\ pc \in {"decryptPass", "exit"} /\ failedAt # <<n, "u">>)

IdMismatchAt(n, f) == pc = "exit" /\ error = "AssertionError" /\ failedAt = <<n, f>>

\* C4 as stated: a processed record with a foreign key identifier in its username or
\* its password blob ends the run with the identifier mismatch, and neither of the
\* record's ciphertexts is handed to 3DES.
C4_NothingOfRecordDecrypted ==
    \A n \in 1..Len(logins) :
        (PastUserCheck(n) /\ (logins[n].username.id # CKA_ID \/ logins[n].password.id # CKA_ID))
            => (<<n, "u">> \notin attempted /\ <<n, "p">> \notin attempted)

\* C4 as amended: a ciphertext is handed to 3DES only after its own blob's key
\* identifier was found equal to CKA_ID.  A foreign identifier in the username blob
\* ends the run with the mismatch before anything of the record is decrypted; one in
\* the password blob alone is met only after the username was decrypted, the password
\* ciphertext is never decrypted, and the run fails in the username's decryption or
\* with the mismatch at the password.
C4_BlobCheckedBeforeItsDecryption ==
    /\ \A a \in attempted : BlobOf(a).id = CKA_ID
    /\ printed \subseteq attempted
    /\ \A n \in 1..Len(logins) :
          /\ (logins[n].username.id # CKA_ID /\ PastUserCheck(n))
                => (IdMismatchAt(n, "u") /\ <<n, "u">> \notin attempted
                                         /\ <<n, "p">> \notin attempted)
          /\ (logins[n].username.id = CKA_ID /\ logins[n].password.id # CKA_ID
                                             /\ PastPassCheck(n))
                => (IdMismatchAt(n, "p") /\ <<n, "u">> \in printed
                                         /\ <<n, "p">> \notin attempted)

\* a record's username was decrypted and printed, and the run then failed on the
\* record's password identifier
C4_Witness ==
    \E n \in 1..Len(logins) : IdMismatchAt(n, "p") /\ <<n, "u">> \in printed

\* C5: getKey completes exactly once before the first login record is decrypted, and
\* when it raised or the password check did not match, no ciphertext of any login
\* record is ever handed to 3DES or printed.
C5_KeyExtractedOnceBeforeDecryption ==
    /\ getKeyCalls <= 1
    /\ (pc # "getKey") => getKeyCalls = 1
    /\ attempted # {}
          => (getKeyCalls = 1 /\ verified /\ GetKeyReturned
                /\ ~ModernMismatch /\ ~LegacyMismatch)
    /\ (getKeyCalls = 1 /\ (~verified \/ ~GetKeyReturned)) => (attempted = {} /\ printed = {})

\* getKey returned without a verified key, login records were read, and the run ended
\* with none of them decrypted
C5_Witness ==
    /\ pc = "exit" /\ getKeyCalls = 1 /\ ~verified /\ GetKeyReturned
    /\ Len(logins) > 0 /\ attempted = {}

(***************************************************************************)
(* Properties of printASN1 (specification SpecAsn).                        *)
(***************************************************************************)
Walked == asnPc = "done"

\* the element at the head of the buffer has a known tag and a length prefix
HasPrefix == Len(buf) >= 2 /\ buf[1] \in asn1Types

\* C6: a first length byte whose low 7 bits announce more than one following length
\* byte makes the walk fail; the byte after the prefix is never taken as the length.
C6_LongLengthRejected ==
    (Walked /\ HasPrefix /\ buf[2] > 129) => asnResult.exc # "none"

\* the head element's declared length, in short or one-byte long form
DeclaredLength == IF buf[2] >= 128 THEN buf[3] ELSE buf[2]
PrefixSize == IF buf[2] >= 128 THEN 3 ELSE 2
OneByteForm == HasPrefix /\ buf[2] <= 129 /\ Len(buf) >= PrefixSize

\* the head element declares more content bytes than the buffer holds
Truncated == OneByteForm /\ PrefixSize + DeclaredLength > Len(buf)

\* the head element is a SEQUENCE whose first child, a complete primitive element in
\* short form, is longer than the SEQUENCE's declared length
ChildOverruns ==
    /\ OneByteForm /\ buf[1] = SEQUENCE_TAG /\ buf[2] < 128 /\ DeclaredLength > 0
    /\ Len(buf) >= 4 /\ buf[3] \in asn1Types \ {SEQUENCE_TAG} /\ buf[4] < 128
    /\ 2 + buf[4] > DeclaredLength
    /\ 4 + buf[4] <= Len(buf)

\* C7: a truncated buffer, or a SEQUENCE whose children do not consume exactly its
\* declared length, makes the walk fail instead of returning a consumed length.
C7_InconsistentLengthRejected ==
    (Walked /\ (Truncated \/ ChildOverruns)) => asnResult.exc # "none"

\* C10: for an element in short or one-byte long form, the value returned is the
\* element's encoded size: tag byte, length bytes and content bytes.
C10_ReturnsEncodedSize ==
    (Walked /\ OneByteForm /\ asnResult.exc = "none")
        => asnResult.ret = PrefixSize + DeclaredLength

(***************************************************************************)
(* Properties of readBsddb (specification SpecDb).                         *)
(***************************************************************************)
BadHeader ==
    header.len = HEADER_SIZE /\ (header.magic # MAGIC \/ header.version # VERSION)

\* C8: a header with a wrong magic number or version makes readBsddb fail with the
\* assertion error, and the header read is the only file access before it.
C8_BadFormatBeforeAnyPage ==
    BadHeader =>
        \/ dbPc = "open"
        \/ /\ dbPc = "raised" /\ dbError = "AssertionError"
           /\ headerReads = 1 /\ seeks = 0 /\ pageReads = 0 /\ visited = <<>>

C8_Witness ==
    dbPc = "raised" /\ header.magic = MAGIC /\ header.version # VERSION /\ headerReads = 1

\* flat indices (0-based, even) of the pairs of the record list
PairIndices == { n \in 0..(Len(db1) - 1) : n % 2 = 0 }

\* the last pair whose key record has the bytes of pair n's key record
LastWithKey(n) ==
    CHOOSE m \in PairIndices :
        /\ db1[m + 2] = db1[n + 2]
        /\ \A q \in PairIndices : db1[q + 2] = db1[n + 2] => q <= m

\* C9 as stated: pages are visited in increasing order from page 1, the count of keys
\* read never passes nkeys, and on return the list holds two records per entry read
\* and every odd-indexed record is mapped to the record before it.
C9_StopsAtNkeysAndMapsEveryPair ==
    /\ visited = [k \in 1..Len(visited) |-> k]
    /\ readkeys <= header.nkeys
    /\ dbPc = "done" =>
          /\ Len(db1) = 2 * readkeys
          /\ \A n \in PairIndices : <<db1[n + 2], db1[n + 1]>> \in db

C9_Shape ==
    /\ visited = [k \in 1..Len(visited) |-> k]
    /\ Len(visited) <= header.nkeys
    /\ dbPc = "outer" => (page = Len(visited) + 1 /\ readkeys >= Len(visited))
    /\ dbPc = "inner" => (page = Len(visited)
                            /\ readkeys - (i \div 4) < header.nkeys
                            /\ readkeys - (i \div 4) >= page - 1
                            /\ i <= 4 * header.nkeys)
    /\ readkeys <= 2 * header.nkeys
    /\ dbPc = "done" =>
          /\ readkeys >= header.nkeys
          /\ Len(db1) = 2 * readkeys
          /\ \A n \in PairIndices : <<db1[n + 2], db1[LastWithKey(n) + 1]>> \in db
          /\ \A p \in db : \E n \in PairIndices : p = <<db1[n + 2], db1[LastWithKey(n) + 1]>>

\* an upper bound of the number of steps readBsddb has left
PageCost == header.nkeys + 3
OuterRank(p) == (header.nkeys + 1 - p) * PageCost + 1
Rank ==
    IF dbPc = "open" THEN OuterRank(1) + 1
    ELSE IF dbPc = "outer" THEN OuterRank(page)
    ELSE IF dbPc = "inner" THEN OuterRank(page + 1) + 1 + (header.nkeys + 1 - (i \div 4))
    ELSE 0

\* C9 as amended: the page loop terminates, by returning or by struct.error (every
\* step lowers Rank, which is never negative); it starts at page 1 and visits pages in
\* increasing order, at most nkeys of them; a page is visited only while the count is
\* below nkeys and each page read to the end of its table adds at least one; the
\* count is tested between pages only, so it may pass nkeys; on return the list
\* holds two records per entry read and each key record is mapped to the record
\* before the last pair that has its bytes.
C9_TerminatesAndRegroups ==
    /\ [](C9_Shape /\ Rank >= 0)
    /\ [][Rank' < Rank]_vars

\* readBsddb returned with more keys read than nkeys, after two pages
C9_Witness ==
    dbPc = "done" /\ readkeys > header.nkeys /\ Len(visited) = 2

====
